---- MODULE Spec2Model ----
(***************************************************************************)
(* Model of callysthenes/cctv.                                             *)
(*                                                                         *)
(*   webcam_server.py : one capture thread (capture_frames, run_detection) *)
(*                      publishing into the camera_state dictionary, the   *)
(*                      Flask handlers that read and write it, and the     *)
(*                      generate_frames stream generator.                  *)
(*   webcam.py        : the command line capture loop of main().           *)
(*                                                                         *)
(* Reals are scaled to integers: contrast and detection_confidence are in  *)
(* tenths (1.0 is 10, 1.3 is 13, 0.5 is 5).                                *)
(***************************************************************************)
EXTENDS Integers, Sequences, FiniteSets, TLC

\* ------------------------------------------------------------------ bounds
\* Successful reads of the server's capture loop that the model follows.
MaxIter == 2
\* HTTP requests (setters, get_state, snapshots, streams) the model follows.
MaxRequests == 2
\* Largest --num-frames the model gives webcam.py.
MaxNumFrames == 2

\* ------------------------------------------------------- program constants
WarmupReads == 5
NightBrightness == -5
NightContrast == 13
BrightnessMin == -50
BrightnessMax == 50
ContrastMin == 5
ContrastMax == 20
ConfidenceMin == 0
ConfidenceMax == 10
\* webcam.py: the loop runs while failed_count < 3
FailureBudget == 3

\* Python values that are not numbers are written as their repr
None == "None"
PyTrue == "True"
PyFalse == "False"

\* camera_state['frame']: None, or a bytes object
NoFrame == [some |-> FALSE, bytes |-> <<>>]
Bytes(b) == [some |-> TRUE, bytes |-> b]

\* ------------------------------------------------------------------- state
VARIABLES
    prog,                  \* which entry point was launched: "server" or "cli"
    \* camera_state (webcam_server.py:32-44)
    brightness, contrast, night_mode, frame, lock, running, fps, frame_count,
    detection_model, detection_confidence, detections,
    \* module globals set by the imports and load_models
    avail,                 \* [yolo_available, yolo_model, rfdetr_available, rfdetr_model]
    \* capture_frames thread
    hpc, hloc,             \* request handler threads: position and locals
    spc, sframe, chunk,    \* generate_frames generators: position, frame local, chunk yielded
    fs,                    \* the snapshot directory: created?, its frame_*.jpg files,
                           \* the number of writes made into it
    cli,                   \* webcam.py main(): its locals and its device handle
    cpc,                   \* position of the capture thread
    warm,                  \* warm-up reads still to do
    loc,                   \* locals of the running iteration
    opened, releases,      \* the device handle: open?, number of cap.release() calls
    \* observations for the claims (not program state)
    iter,                  \* successful reads so far (the iteration number)
    frameIter, detIter,    \* iteration that wrote frame / detections (0: initial value)
    consecFails,           \* consecutive failed reads of the server loop (saturating)
    ctlHist,               \* ControlState values that existed during the iteration
    pubAfterStop,          \* frames published after running became False (saturating)
    nreq,                  \* requests issued so far
    resp                   \* response of the last completed request

ctlVars == <<brightness, contrast, night_mode, detection_model, detection_confidence>>
slotVars == <<frame, fps, frame_count, detections>>
capVars == <<cpc, warm, loc, opened, releases>>
obsVars == <<iter, frameIter, detIter, consecFails, ctlHist, pubAfterStop>>
reqVars == <<hpc, hloc, nreq, resp>>
genVars == <<spc, sframe, chunk>>
vars == <<prog, ctlVars, slotVars, lock, running, avail, capVars, obsVars, reqVars,
          genVars, fs, cli>>

\* ---------------------------------------------------------- pure helpers
Min(a, b) == IF a < b THEN a ELSE b
Max(a, b) == IF a > b THEN a ELSE b
Abs(x) == IF x < 0 THEN -x ELSE x

\* a clamp that forgets the lower bound
Clamp_NoLower(lo, hi, value) == Min(hi, value)

\* max(lo, min(hi, value)) as the setters write it
Clamp(lo, hi, value) == Max(lo, Min(hi, value))

\* cvRound of t/10: round to nearest, ties to even
RoundTenths(t) ==
    LET q == t \div 10
        r == t % 10
    IN  IF r < 5 THEN q
        ELSE IF r > 5 THEN q + 1
        ELSE IF q % 2 = 0 THEN q ELSE q + 1

\* one channel of cv2.convertScaleAbs(frame, alpha=contrast, beta=brightness * 2):
\* saturate_cast<uchar>(|x * alpha + beta|), contrast c in tenths
ScaleAbs(x, c, b) == Min(255, RoundTenths(Abs(x * c + 20 * b)))

\* cv2.COLOR_BGR2GRAY on 8-bit pixels (fixed point, 14 fractional bits)
Luma(p) == (p[1] * 1868 + p[2] * 9617 + p[3] * 4899 + 8192) \div 16384

\* BGR2GRAY followed by GRAY2BGR: the luminance copied to the three channels
GrayBGR(p) == <<Luma(p), Luma(p), Luma(p)>>

\* convertScaleAbs on a whole (one pixel, three channel) image
ConvertScaleAbs(p, c, b) == [k \in 1..3 |-> ScaleAbs(p[k], c, b)]

\* cv2.imencode('.jpg', ..., [cv2.IMWRITE_JPEG_QUALITY, 80]).tobytes(): a byte string
\* whose length depends on the picture; SOI marker, a quantisation segment carrying
\* the quality, the picture's data (one byte per drawn box), EOI marker
ImEncode(pix, boxes) ==
    <<255, 216, 255, 219, 80>> \o pix \o [k \in 1..boxes |-> 1] \o <<255, 217>>

\* Python truth value of a (repr of a) JSON value
Truthy(v) == v \notin {PyFalse, None, "0", "''"}

\* Python truth value of camera_state['frame']: None and b'' are false
FrameTruthy(f) == f.some /\ f.bytes # <<>>

\* raw frames the device can deliver (B, G, R)
RawFrames == {<<10, 200, 255>>}

\* what a detector can find in a frame: scores in tenths
RawDetections == {<<>>, <<[conf |-> 9, bbox |-> <<1, 1, 2, 2>>]>>}

\* the control values, as one record
ControlState ==
    [brightness |-> brightness, contrast |-> contrast, night_mode |-> night_mode,
     detection_model |-> detection_model,
     detection_confidence |-> detection_confidence]

\* locals of one capture iteration; read: the camera_state keys read so far;
\* ran: the detector returned its results (no exception)
NoLoc == [frame |-> <<>>, night |-> FALSE, brightness |-> 0, contrast |-> 0,
          model0 |-> "", model |-> "", conf |-> 0, boxes |-> 0, ran |-> FALSE,
          read |-> {}]

\* Flask request threads (threaded=True)
Handlers == {"h1", "h2"}

\* locals of capture_image: the frame read, the files counted
NoHLoc == [frame |-> NoFrame, next_num |-> 0]

\* consumers of GET /video_feed, each with its own generator
Streams == {"s1", "s2"}

\* webcam.py main() before cv2.VideoCapture(dev): the parsed arguments
CliStart ==
    { [pc |-> "open", warm |-> 0, num_frames |-> n, night |-> ni,
       brightness |-> 0, contrast |-> 10,
       frame_count |-> 0, failed_count |-> 0, opened |-> FALSE, releases |-> 0,
       saved |-> <<>>] : n \in 0..MaxNumFrames, ni \in BOOLEAN }

\* the other program's state when only one of the two was launched
CliNotRun == [pc |-> "none", warm |-> 0, num_frames |-> 0, night |-> FALSE,
              brightness |-> 0, contrast |-> 10,
              frame_count |-> 0, failed_count |-> 0, opened |-> FALSE, releases |-> 0,
              saved |-> <<>>]
NotImported == [yolo_available |-> FALSE, yolo_model |-> FALSE,
                rfdetr_available |-> FALSE, rfdetr_model |-> FALSE]

NoResp == [req |-> None, status |-> 0, body |-> None]

\* import and load outcomes of the two detectors (lines 14-27 and load_models):
\* both imported and loaded; yolo imported and loaded with rfdetr not installed;
\* both imported, yolo's weights failing to load
BothLoaded == [yolo_available |-> TRUE, yolo_model |-> TRUE,
               rfdetr_available |-> TRUE, rfdetr_model |-> TRUE]
Availabilities ==
    { BothLoaded,
      [yolo_available |-> TRUE, yolo_model |-> TRUE,
       rfdetr_available |-> FALSE, rfdetr_model |-> FALSE],
      [yolo_available |-> TRUE, yolo_model |-> FALSE,
       rfdetr_available |-> TRUE, rfdetr_model |-> TRUE] }

\* ------------------------------------------------------------------ Init
InitWith(p, a, c) ==
    /\ prog = p
    /\ brightness = 0
    /\ contrast = 10
    /\ night_mode = PyFalse
    /\ frame = NoFrame
    /\ lock = "free"
    /\ running = TRUE
    /\ fps = 0
    /\ frame_count = 0
    /\ detection_model = "none"
    /\ detection_confidence = 5
    /\ detections = <<>>
    /\ avail = a
    /\ cpc = "open"
    /\ warm = 0
    /\ loc = NoLoc
    /\ opened = FALSE
    /\ releases = 0
    /\ iter = 0
    /\ frameIter = 0
    /\ detIter = 0
    /\ consecFails = 0
    /\ ctlHist = {}
    /\ pubAfterStop = 0
    /\ nreq = 0
    /\ resp = NoResp
    /\ hpc = [h \in Handlers |-> "idle"]
    /\ hloc = [h \in Handlers |-> NoHLoc]
    /\ spc = [s \in Streams |-> "idle"]
    /\ sframe = [s \in Streams |-> NoFrame]
    /\ chunk = [s \in Streams |-> <<>>]
    /\ fs = [made |-> FALSE, files |-> <<>>, written |-> 0]
    /\ cli = c

\* webcam_server.py launched, both detectors imported and loaded
Init == InitWith("server", BothLoaded, CliNotRun)

\* either program launched
InitLoops ==
    \/ Init
    \/ \E c \in CliStart : InitWith("cli", NotImported, c)

\* ------------------------------------------------- capture_frames thread
\* every step of the capture thread that touches no request state
CapFrame == UNCHANGED <<prog, avail, reqVars, running, ctlVars, genVars, fs, cli>>

\* an open that goes straight to the capture loop
CapOpen_NoWarmup ==
    /\ prog = "server" /\ cpc = "open"
    /\ \E ok \in BOOLEAN :
         /\ opened' = ok
         /\ cpc' = IF ok THEN "top" ELSE "returned"
         /\ warm' = 0
    /\ UNCHANGED <<loc, releases, slotVars, lock, obsVars>>
    /\ CapFrame

\* cap = cv2.VideoCapture(0); if not cap.isOpened(): return
CapOpen ==
    /\ prog = "server" /\ cpc = "open"
    /\ \E ok \in BOOLEAN :
         /\ opened' = ok
         /\ cpc' = IF ok THEN "warm" ELSE "returned"
         /\ warm' = IF ok THEN WarmupReads ELSE 0
    /\ UNCHANGED <<loc, releases, slotVars, lock, obsVars>>
    /\ CapFrame

\* for _ in range(5): cap.read() -- the result is dropped
CapWarm ==
    /\ prog = "server" /\ cpc = "warm"
    /\ \E ok \in BOOLEAN :
         /\ warm' = warm - 1
         /\ cpc' = IF warm = 1 THEN "top" ELSE "warm"
    /\ UNCHANGED <<loc, opened, releases, slotVars, lock, obsVars>>
    /\ CapFrame

\* a loop test that never looks at the running flag
CapLoopTest_IgnoresStop ==
    /\ prog = "server" /\ cpc = "top"
    /\ cpc' = "read"
    /\ UNCHANGED <<warm, loc, opened, releases, slotVars, lock, obsVars>>
    /\ CapFrame

\* a failed read that ends the loop at once
CapReadFail_Fatal ==
    /\ prog = "server" /\ cpc = "read"
    /\ cpc' = "release"
    /\ consecFails' = Min(consecFails + 1, FailureBudget + 1)
    /\ UNCHANGED <<warm, loc, opened, releases, slotVars, lock>>
    /\ UNCHANGED <<iter, frameIter, detIter, ctlHist, pubAfterStop>>
    /\ CapFrame

\* while camera_state['running']:
CapLoopTest ==
    /\ prog = "server" /\ cpc = "top"
    /\ cpc' = IF running THEN "read" ELSE "release"
    /\ UNCHANGED <<warm, loc, opened, releases, slotVars, lock, obsVars>>
    /\ CapFrame

\* ret, frame = cap.read(); if not ret: continue
CapReadFail ==
    /\ prog = "server" /\ cpc = "read"
    /\ cpc' = "top"
    /\ consecFails' = Min(consecFails + 1, FailureBudget + 1)
    /\ UNCHANGED <<warm, loc, opened, releases, slotVars, lock>>
    /\ UNCHANGED <<iter, frameIter, detIter, ctlHist, pubAfterStop>>
    /\ CapFrame

\* ret, frame = cap.read() with ret true
CapReadOk ==
    /\ prog = "server" /\ cpc = "read"
    /\ iter < MaxIter
    /\ \E raw \in RawFrames : loc' = [NoLoc EXCEPT !.frame = raw]
    /\ cpc' = "night"
    /\ iter' = iter + 1
    /\ consecFails' = 0
    /\ ctlHist' = {ControlState}
    /\ UNCHANGED <<warm, opened, releases, slotVars, lock>>
    /\ UNCHANGED <<frameIter, detIter, pubAfterStop>>
    /\ CapFrame

\* a night mode that only desaturates and goes on to read the stored controls
CapNight_KeepsControls ==
    /\ prog = "server" /\ cpc = "night"
    /\ loc' = [loc EXCEPT !.night = Truthy(night_mode),
                          !.frame = IF Truthy(night_mode) THEN GrayBGR(loc.frame) ELSE @,
                          !.read = @ \cup {"night_mode"}]
    /\ cpc' = "brightness"
    /\ UNCHANGED <<warm, opened, releases, slotVars, lock, obsVars>>
    /\ CapFrame

\* if camera_state['night_mode']: gray, brightness = -5, contrast = 1.3 (lines 105-112)
CapNight ==
    /\ prog = "server" /\ cpc = "night"
    /\ IF Truthy(night_mode)
         THEN /\ loc' = [loc EXCEPT !.night = TRUE, !.frame = GrayBGR(loc.frame),
                                    !.brightness = NightBrightness,
                                    !.contrast = NightContrast,
                                    !.read = @ \cup {"night_mode"}]
              /\ cpc' = "adjust"
         ELSE /\ loc' = [loc EXCEPT !.night = FALSE, !.read = @ \cup {"night_mode"}]
              /\ cpc' = "brightness"
    /\ UNCHANGED <<warm, opened, releases, slotVars, lock, obsVars>>
    /\ CapFrame

\* brightness = camera_state['brightness'] (line 116)
CapBrightness ==
    /\ prog = "server" /\ cpc = "brightness"
    /\ loc' = [loc EXCEPT !.brightness = brightness, !.read = @ \cup {"brightness"}]
    /\ cpc' = "contrast"
    /\ UNCHANGED <<warm, opened, releases, slotVars, lock, obsVars>>
    /\ CapFrame

\* contrast = camera_state['contrast'] (line 117)
CapContrast ==
    /\ prog = "server" /\ cpc = "contrast"
    /\ loc' = [loc EXCEPT !.contrast = contrast, !.read = @ \cup {"contrast"}]
    /\ cpc' = "adjust"
    /\ UNCHANGED <<warm, opened, releases, slotVars, lock, obsVars>>
    /\ CapFrame

\* adjusted = cv2.convertScaleAbs(...); if camera_state['detection_model'] != 'none':
CapAdjust ==
    /\ prog = "server" /\ cpc = "adjust"
    /\ loc' = [loc EXCEPT !.frame = ConvertScaleAbs(loc.frame, loc.contrast, loc.brightness),
                          !.model0 = detection_model,
                          !.read = @ \cup {"detection_model"}]
    /\ cpc' = IF detection_model # "none" THEN "det_model" ELSE "encode"
    /\ UNCHANGED <<warm, opened, releases, slotVars, lock, obsVars>>
    /\ CapFrame

\* run_detection: model = camera_state['detection_model'] (line 146)
DetModel ==
    /\ prog = "server" /\ cpc = "det_model"
    /\ loc' = [loc EXCEPT !.model = detection_model, !.read = @ \cup {"detection_model2"}]
    /\ cpc' = "det_conf"
    /\ UNCHANGED <<warm, opened, releases, slotVars, lock, obsVars>>
    /\ CapFrame

\* run_detection: conf_threshold = camera_state['detection_confidence'] (line 147)
DetConf ==
    /\ prog = "server" /\ cpc = "det_conf"
    /\ loc' = [loc EXCEPT !.conf = detection_confidence,
                          !.read = @ \cup {"detection_confidence"}]
    /\ cpc' = "det_run"
    /\ UNCHANGED <<warm, opened, releases, slotVars, lock, obsVars>>
    /\ CapFrame

\* the detections a detector keeps: yolo is called with conf=conf_threshold,
\* rfdetr keeps scores.item() > conf_threshold
KeptYolo(raw, conf) == SelectSeq(raw, LAMBDA d : d.conf >= conf)
KeptRfdetr(raw, conf) == SelectSeq(raw, LAMBDA d : d.conf > conf)

\* lines 149-165: the yolo branch; camera_state['detections'] is assigned only
\* when results[0].boxes is not empty
DetYolo ==
    /\ prog = "server" /\ cpc = "det_run"
    /\ loc.model = "yolo" /\ avail.yolo_model
    /\ \E raw \in RawDetections :
         LET kept == KeptYolo(raw, loc.conf) IN
         /\ loc' = [loc EXCEPT !.boxes = Len(kept), !.ran = TRUE]
         /\ IF kept # <<>>
              THEN detections' = kept /\ detIter' = iter
              ELSE UNCHANGED <<detections, detIter>>
    /\ cpc' = "encode"
    /\ UNCHANGED <<warm, opened, releases, frame, fps, frame_count, lock>>
    /\ UNCHANGED <<iter, frameIter, consecFails, ctlHist, pubAfterStop>>
    /\ CapFrame

\* lines 167-200: the rfdetr branch; camera_state['detections'] is always assigned
DetRfdetr ==
    /\ prog = "server" /\ cpc = "det_run"
    /\ loc.model = "rfdetr" /\ avail.rfdetr_model
    /\ \E raw \in RawDetections :
         LET kept == KeptRfdetr(raw, loc.conf) IN
         /\ loc' = [loc EXCEPT !.boxes = Len(kept), !.ran = TRUE]
         /\ detections' = kept
         /\ detIter' = iter
    /\ cpc' = "encode"
    /\ UNCHANGED <<warm, opened, releases, frame, fps, frame_count, lock>>
    /\ UNCHANGED <<iter, frameIter, consecFails, ctlHist, pubAfterStop>>
    /\ CapFrame

\* lines 164-165 and 201-202: the detector raised; the error is printed
DetError ==
    /\ prog = "server" /\ cpc = "det_run"
    /\ \/ loc.model = "yolo" /\ avail.yolo_model
       \/ loc.model = "rfdetr" /\ avail.rfdetr_model
    /\ cpc' = "encode"
    /\ UNCHANGED <<warm, loc, opened, releases, slotVars, lock, obsVars>>
    /\ CapFrame

\* line 204 reached with neither branch taken: the frame comes back as it went in
DetSkip ==
    /\ prog = "server" /\ cpc = "det_run"
    /\ ~(loc.model = "yolo" /\ avail.yolo_model)
    /\ ~(loc.model = "rfdetr" /\ avail.rfdetr_model)
    /\ cpc' = "encode"
    /\ UNCHANGED <<warm, loc, opened, releases, slotVars, lock, obsVars>>
    /\ CapFrame

\* an encode made inside the lock, before the with statement of the publish
CapEncode_Locked ==
    /\ prog = "server" /\ cpc = "encode"
    /\ lock = "free"
    /\ lock' = "capture"
    /\ loc' = [loc EXCEPT !.frame = ImEncode(loc.frame, loc.boxes)]
    /\ cpc' = "lock"
    /\ UNCHANGED <<warm, opened, releases, slotVars, obsVars>>
    /\ CapFrame

\* ret, buffer = cv2.imencode(...); frame_bytes = buffer.tobytes() (lines 127-128)
CapEncode ==
    /\ prog = "server" /\ cpc = "encode"
    /\ loc' = [loc EXCEPT !.frame = ImEncode(loc.frame, loc.boxes)]
    /\ cpc' = "lock"
    /\ UNCHANGED <<warm, opened, releases, slotVars, lock, obsVars>>
    /\ CapFrame

\* with camera_state['lock']: (line 130)
CapLock ==
    /\ prog = "server" /\ cpc = "lock"
    /\ lock = "free"
    /\ lock' = "capture"
    /\ cpc' = "publish"
    /\ UNCHANGED <<warm, loc, opened, releases, slotVars, obsVars>>
    /\ CapFrame

\* lines 131-139, then the lock is released; elapsed: current_time - last_time >= 1.0
CapPublish ==
    /\ prog = "server" /\ cpc = "publish"
    /\ frame' = Bytes(loc.frame)
    /\ \E elapsed \in BOOLEAN :
         IF elapsed
           THEN fps' = frame_count + 1 /\ frame_count' = 0
           ELSE fps' = fps /\ frame_count' = frame_count + 1
    /\ lock' = "free"
    /\ cpc' = "top"
    /\ loc' = NoLoc
    /\ frameIter' = iter
    /\ ctlHist' = {}
    /\ pubAfterStop' = IF running THEN pubAfterStop ELSE Min(pubAfterStop + 1, 2)
    /\ UNCHANGED <<warm, opened, releases, detections, iter, detIter, consecFails>>
    /\ CapFrame

\* cap.release() (line 141)
CapRelease ==
    /\ prog = "server" /\ cpc = "release"
    /\ releases' = releases + 1
    /\ opened' = FALSE
    /\ cpc' = "exited"
    /\ UNCHANGED <<warm, loc, slotVars, lock, obsVars>>
    /\ CapFrame

Capture ==
    \/ CapOpen \/ CapWarm \/ CapLoopTest \/ CapReadFail \/ CapReadOk
    \/ CapNight \/ CapBrightness \/ CapContrast \/ CapAdjust
    \/ DetModel \/ DetConf \/ DetYolo \/ DetRfdetr \/ DetError \/ DetSkip
    \/ CapEncode \/ CapLock \/ CapPublish \/ CapRelease

\* ------------------------------------------------------- request handlers
\* every step of a request handler leaves the capture thread where it is
ReqFrame == UNCHANGED <<prog, avail, capVars, running, genVars, cli>>

\* the ControlState values seen while an iteration is in flight
NoteControl == ctlHist' = IF ctlHist = {} THEN {} ELSE ctlHist \cup {ControlState'}
ReqObs == NoteControl /\ UNCHANGED <<iter, frameIter, detIter, consecFails, pubAfterStop>>

\* values the requests of the model carry
BrightnessInputs == {60}
ContrastInputs == {3}
EnabledInputs == {PyTrue, PyFalse}
ModelInputs == {"none", "yolo", "rfdetr", "foo"}
ConfidenceInputs == {12}

\* POST /api/brightness (lines 250-256)
set_brightness(v) ==
    /\ prog = "server" /\ nreq < MaxRequests
    /\ brightness' = Clamp(BrightnessMin, BrightnessMax, v)
    /\ resp' = [req |-> "brightness", status |-> 200, body |-> brightness']
    /\ nreq' = nreq + 1
    /\ UNCHANGED <<contrast, night_mode, detection_model, detection_confidence>>
    /\ UNCHANGED <<slotVars, lock, hpc, hloc, fs>>
    /\ ReqObs /\ ReqFrame

\* POST /api/contrast (lines 259-265)
set_contrast(v) ==
    /\ prog = "server" /\ nreq < MaxRequests
    /\ contrast' = Clamp(ContrastMin, ContrastMax, v)
    /\ resp' = [req |-> "contrast", status |-> 200, body |-> contrast']
    /\ nreq' = nreq + 1
    /\ UNCHANGED <<brightness, night_mode, detection_model, detection_confidence>>
    /\ UNCHANGED <<slotVars, lock, hpc, hloc, fs>>
    /\ ReqObs /\ ReqFrame

\* POST /api/night_mode (lines 268-272): the value is stored as it comes
toggle_night_mode(enabled) ==
    /\ prog = "server" /\ nreq < MaxRequests
    /\ night_mode' = enabled
    /\ resp' = [req |-> "night_mode", status |-> 200, body |-> night_mode']
    /\ nreq' = nreq + 1
    /\ UNCHANGED <<brightness, contrast, detection_model, detection_confidence>>
    /\ UNCHANGED <<slotVars, lock, hpc, hloc, fs>>
    /\ ReqObs /\ ReqFrame

\* the two tests of lines 306-309
Rejected(model) ==
    \/ model = "yolo" /\ ~avail.yolo_available
    \/ model = "rfdetr" /\ ~avail.rfdetr_available

\* POST /api/detection_model (lines 301-312)
set_detection_model(model) ==
    /\ prog = "server" /\ nreq < MaxRequests
    /\ IF Rejected(model)
         THEN /\ resp' = [req |-> "detection_model", status |-> 400, body |-> model]
              /\ UNCHANGED detection_model
         ELSE /\ detection_model' = model
              /\ resp' = [req |-> "detection_model", status |-> 200, body |-> model]
    /\ nreq' = nreq + 1
    /\ UNCHANGED <<brightness, contrast, night_mode, detection_confidence>>
    /\ UNCHANGED <<slotVars, lock, hpc, hloc, fs>>
    /\ ReqObs /\ ReqFrame

\* POST /api/detection_confidence (lines 315-321)
set_detection_confidence(c) ==
    /\ prog = "server" /\ nreq < MaxRequests
    /\ detection_confidence' = Clamp(ConfidenceMin, ConfidenceMax, c)
    /\ resp' = [req |-> "detection_confidence", status |-> 200,
                body |-> detection_confidence']
    /\ nreq' = nreq + 1
    /\ UNCHANGED <<brightness, contrast, night_mode, detection_model>>
    /\ UNCHANGED <<slotVars, lock, hpc, hloc, fs>>
    /\ ReqObs /\ ReqFrame

\* GET /api/state: with camera_state['lock']: (line 236)
get_state_lock(h) ==
    /\ prog = "server" /\ nreq < MaxRequests
    /\ hpc[h] = "idle" /\ lock = "free"
    /\ lock' = h
    /\ hpc' = [hpc EXCEPT ![h] = "state"]
    /\ nreq' = nreq + 1
    /\ UNCHANGED <<ctlVars, slotVars, hloc, resp, obsVars, fs>>
    /\ ReqFrame

\* the dictionary of lines 237-247, built under the lock
StateBody ==
    [brightness |-> brightness, contrast |-> contrast, night_mode |-> night_mode,
     fps |-> fps, detection_model |-> detection_model,
     detection_confidence |-> detection_confidence,
     detections_count |-> Len(detections),
     yolo_available |-> avail.yolo_available,
     rfdetr_available |-> avail.rfdetr_available]

\* GET /api/state: return jsonify({...}), leaving the with block
get_state(h) ==
    /\ prog = "server"
    /\ hpc[h] = "state" /\ lock = h
    /\ resp' = [req |-> "state", status |-> 200, body |-> StateBody]
    /\ lock' = "free"
    /\ hpc' = [hpc EXCEPT ![h] = "idle"]
    /\ UNCHANGED <<ctlVars, slotVars, hloc, nreq, obsVars, fs>>
    /\ ReqFrame

\* camera_state['running'] = False, by whoever stops the server (the flag of line 38)
StopSignal ==
    /\ prog = "server" /\ running
    /\ running' = FALSE
    /\ UNCHANGED <<prog, avail, ctlVars, slotVars, lock, capVars, obsVars, reqVars>>
    /\ UNCHANGED <<genVars, fs, cli>>

\* ---------------------------------------------------- generate_frames
\* str(n).encode(): the decimal digits of n, as ASCII codes
RECURSIVE StrEncode(_)
StrEncode(n) == IF n < 10 THEN <<48 + n>> ELSE StrEncode(n \div 10) \o <<48 + (n % 10)>>

\* b'--frame\r\n' b'Content-Type: image/jpeg\r\n' b'Content-Length: '
ChunkHead == <<45, 45, 102, 114, 97, 109, 101, 13, 10, 67, 111, 110, 116, 101, 110, 116, 45, 84, 121, 112, 101, 58, 32, 105, 109, 97, 103, 101, 47, 106, 112, 101, 103, 13, 10, 67, 111, 110, 116, 101, 110, 116, 45, 76, 101, 110, 103, 116, 104, 58, 32>>
\* b'\r\n\r\n' and b'\r\n'
CRLFCRLF == <<13, 10, 13, 10>>
CRLF == <<13, 10>>

\* a chunk whose Content-Length counts the closing CRLF as well
MakeChunk_LengthOff(bytes) ==
    ChunkHead \o StrEncode(Len(bytes) + 2) \o CRLFCRLF \o bytes \o CRLF

\* the value of the yield expression (lines 213-216)
MakeChunk(bytes) ==
    ChunkHead \o StrEncode(Len(bytes)) \o CRLFCRLF \o bytes \o CRLF

GenFrame == UNCHANGED <<prog, avail, ctlVars, slotVars, running, capVars, obsVars,
                        hpc, hloc, resp, fs, cli>>

\* GET /video_feed: app.response_class(generate_frames(), ...) (lines 226-231)
video_feed(s) ==
    /\ prog = "server" /\ nreq < MaxRequests
    /\ spc[s] = "idle"
    /\ spc' = [spc EXCEPT ![s] = "loop"]
    /\ nreq' = nreq + 1
    /\ UNCHANGED <<sframe, chunk, lock>>
    /\ GenFrame

\* while camera_state['running']: (line 208)
GenLoopTest(s) ==
    /\ prog = "server" /\ spc[s] = "loop"
    /\ spc' = [spc EXCEPT ![s] = IF running THEN "lock" ELSE "ended"]
    /\ UNCHANGED <<sframe, chunk, lock, nreq>>
    /\ GenFrame

\* with camera_state['lock']: (line 209)
GenLock(s) ==
    /\ prog = "server" /\ spc[s] = "lock"
    /\ lock = "free"
    /\ lock' = s
    /\ spc' = [spc EXCEPT ![s] = "read"]
    /\ UNCHANGED <<sframe, chunk, nreq>>
    /\ GenFrame

\* frame = camera_state['frame'], leaving the with block (line 210)
GenRead(s) ==
    /\ prog = "server" /\ spc[s] = "read" /\ lock = s
    /\ sframe' = [sframe EXCEPT ![s] = frame]
    /\ lock' = "free"
    /\ spc' = [spc EXCEPT ![s] = "test"]
    /\ UNCHANGED <<chunk, nreq>>
    /\ GenFrame

\* if frame is not None: yield (...) (lines 212-216)
GenYield(s) ==
    /\ prog = "server" /\ spc[s] = "test"
    /\ sframe[s].some
    /\ chunk' = [chunk EXCEPT ![s] = MakeChunk(sframe[s].bytes)]
    /\ spc' = [spc EXCEPT ![s] = "yielded"]
    /\ UNCHANGED <<sframe, lock, nreq>>
    /\ GenFrame

\* else: time.sleep(0.01) (lines 217-218)
GenSleep(s) ==
    /\ prog = "server" /\ spc[s] = "test"
    /\ ~sframe[s].some
    /\ spc' = [spc EXCEPT ![s] = "loop"]
    /\ UNCHANGED <<sframe, chunk, lock, nreq>>
    /\ GenFrame

\* the consumer takes the chunk and asks for the next one: the generator resumes
GenResume(s) ==
    /\ prog = "server" /\ spc[s] = "yielded"
    /\ spc' = [spc EXCEPT ![s] = "loop"]
    /\ chunk' = [chunk EXCEPT ![s] = <<>>]
    /\ sframe' = [sframe EXCEPT ![s] = NoFrame]
    /\ UNCHANGED <<lock, nreq>>
    /\ GenFrame

\* the consumer disconnected: the generator is closed at its yield
GenClose(s) ==
    /\ prog = "server" /\ spc[s] = "yielded"
    /\ spc' = [spc EXCEPT ![s] = "ended"]
    /\ chunk' = [chunk EXCEPT ![s] = <<>>]
    /\ sframe' = [sframe EXCEPT ![s] = NoFrame]
    /\ UNCHANGED <<lock, nreq>>
    /\ GenFrame

generate_frames(s) ==
    \/ GenLoopTest(s) \/ GenLock(s) \/ GenRead(s) \/ GenYield(s) \/ GenSleep(s)

\* ------------------------------------------------------- capture_image
SnapFrame == UNCHANGED <<prog, avail, ctlVars, slotVars, running, capVars, obsVars,
                         genVars, cli>>

\* POST /api/capture: output_dir.mkdir(parents=True, exist_ok=True) (lines 277-279)
SnapMkdir(h) ==
    /\ prog = "server" /\ nreq < MaxRequests
    /\ hpc[h] = "idle"
    /\ fs' = [fs EXCEPT !.made = TRUE]
    /\ hpc' = [hpc EXCEPT ![h] = "snap_lock"]
    /\ nreq' = nreq + 1
    /\ UNCHANGED <<hloc, resp, lock>>
    /\ SnapFrame

\* with camera_state['lock']: (line 281)
SnapLock(h) ==
    /\ prog = "server" /\ hpc[h] = "snap_lock"
    /\ lock = "free"
    /\ lock' = h
    /\ hpc' = [hpc EXCEPT ![h] = "snap_read"]
    /\ UNCHANGED <<hloc, resp, nreq, fs>>
    /\ SnapFrame

\* frame = camera_state['frame'], leaving the with block (line 282)
SnapRead(h) ==
    /\ prog = "server" /\ hpc[h] = "snap_read" /\ lock = h
    /\ hloc' = [hloc EXCEPT ![h].frame = frame]
    /\ lock' = "free"
    /\ hpc' = [hpc EXCEPT ![h] = "snap_test"]
    /\ UNCHANGED <<resp, nreq, fs>>
    /\ SnapFrame

\* a snapshot that goes on to write without testing the frame it read
SnapGlob_Unchecked(h) ==
    /\ prog = "server" /\ hpc[h] = "snap_test"
    /\ hloc' = [hloc EXCEPT ![h].next_num = Len(fs.files)]
    /\ hpc' = [hpc EXCEPT ![h] = "snap_write"]
    /\ UNCHANGED <<resp, nreq, fs, lock>>
    /\ SnapFrame

\* if frame: existing_files = list(output_dir.glob('frame_*.jpg')) (lines 284-288)
SnapGlob(h) ==
    /\ prog = "server" /\ hpc[h] = "snap_test"
    /\ FrameTruthy(hloc[h].frame)
    /\ hloc' = [hloc EXCEPT ![h].next_num = Len(fs.files)]
    /\ hpc' = [hpc EXCEPT ![h] = "snap_write"]
    /\ UNCHANGED <<resp, nreq, fs, lock>>
    /\ SnapFrame

\* a write that always creates a new file
WriteFile_FreshName(files, n, bytes) == Append(files, bytes)

\* writing frame_<n>.jpg: files[n + 1] is the content of frame_<n>.jpg
WriteFile(files, n, bytes) ==
    IF n < Len(files) THEN [files EXCEPT ![n + 1] = bytes] ELSE Append(files, bytes)

\* with open(filename, 'wb') as f: f.write(frame); return success (lines 290-296)
SnapWrite(h) ==
    /\ prog = "server" /\ hpc[h] = "snap_write"
    /\ fs' = [fs EXCEPT !.files = WriteFile(fs.files, hloc[h].next_num, hloc[h].frame.bytes),
                         !.written = @ + 1]
    /\ resp' = [req |-> "capture", status |-> 200, body |-> hloc[h].next_num]
    /\ hloc' = [hloc EXCEPT ![h] = NoHLoc]
    /\ hpc' = [hpc EXCEPT ![h] = "idle"]
    /\ UNCHANGED <<nreq, lock>>
    /\ SnapFrame

\* return jsonify({'success': False, 'error': 'No frame available'}), 500 (line 298)
SnapFail(h) ==
    /\ prog = "server" /\ hpc[h] = "snap_test"
    /\ ~FrameTruthy(hloc[h].frame)
    /\ resp' = [req |-> "capture", status |-> 500, body |-> 0]
    /\ hloc' = [hloc EXCEPT ![h] = NoHLoc]
    /\ hpc' = [hpc EXCEPT ![h] = "idle"]
    /\ UNCHANGED <<nreq, lock, fs>>
    /\ SnapFrame

capture_image(h) ==
    \/ SnapMkdir(h) \/ SnapLock(h) \/ SnapRead(h) \/ SnapGlob(h) \/ SnapWrite(h)
    \/ SnapFail(h)

\* ------------------------------------------------------ webcam.py main()
CliFrame == UNCHANGED <<prog, avail, ctlVars, slotVars, lock, running, capVars, obsVars,
                        reqVars, genVars, fs>>

\* cap = cv2.VideoCapture(dev); if not cap.isOpened(): raise SystemExit (lines 57-59);
\* night mode replaces the brightness and contrast arguments (lines 70-76)
CliOpen ==
    /\ prog = "cli" /\ cli.pc = "open"
    /\ \E ok \in BOOLEAN :
         cli' = IF ok
                  THEN [cli EXCEPT !.pc = "warm", !.opened = TRUE, !.warm = WarmupReads,
                                   !.brightness = IF cli.night THEN NightBrightness ELSE @,
                                   !.contrast = IF cli.night THEN NightContrast ELSE @]
                  ELSE [cli EXCEPT !.pc = "exit"]
    /\ CliFrame

\* for _ in range(5): cap.read() (lines 81-83)
CliWarm ==
    /\ prog = "cli" /\ cli.pc = "warm"
    /\ cli' = [cli EXCEPT !.warm = @ - 1, !.pc = IF cli.warm = 1 THEN "top" ELSE "warm"]
    /\ CliFrame

\* a loop test without the failure budget
CliLoopTest_NoBudget ==
    /\ prog = "cli" /\ cli.pc = "top"
    /\ cli' = [cli EXCEPT !.pc = IF cli.frame_count < cli.num_frames THEN "read"
                                                                    ELSE "release"]
    /\ CliFrame

\* while frame_count < args.num_frames and failed_count < 3: (line 96)
CliLoopTest ==
    /\ prog = "cli" /\ cli.pc = "top"
    /\ cli' = [cli EXCEPT !.pc =
                 IF cli.frame_count < cli.num_frames /\ cli.failed_count < FailureBudget
                   THEN "read" ELSE "release"]
    /\ CliFrame

\* if not ret: failed_count += 1; continue (lines 97-102)
CliReadFail ==
    /\ prog = "cli" /\ cli.pc = "read"
    /\ cli' = [cli EXCEPT !.failed_count = @ + 1, !.pc = "top"]
    /\ CliFrame

\* a picture as webcam.py writes it: gray in night mode, then convertScaleAbs
CliAdjusted(raw) ==
    ConvertScaleAbs(IF cli.night THEN GrayBGR(raw) ELSE raw, cli.contrast, cli.brightness)

\* failed_count = 0; adjust; cv2.imwrite(frame_<frame_count>.jpg); frame_count += 1
\* (lines 104-120)
CliReadOk ==
    /\ prog = "cli" /\ cli.pc = "read"
    /\ \E raw \in RawFrames :
         cli' = [cli EXCEPT !.failed_count = 0,
                            !.saved = WriteFile(@, cli.frame_count, CliAdjusted(raw)),
                            !.frame_count = @ + 1,
                            !.pc = "top"]
    /\ CliFrame

\* cap.release() (line 122)
CliRelease ==
    /\ prog = "cli" /\ cli.pc = "release"
    /\ cli' = [cli EXCEPT !.releases = @ + 1, !.opened = FALSE, !.pc = "done"]
    /\ CliFrame

main == CliOpen \/ CliWarm \/ CliLoopTest \/ CliReadFail \/ CliReadOk \/ CliRelease

\* ---------------------------------------------------------- specifications
Setters ==
    \/ \E v \in BrightnessInputs : set_brightness(v)
    \/ \E v \in ContrastInputs : set_contrast(v)
    \/ \E e \in EnabledInputs : toggle_night_mode(e)
    \/ \E m \in ModelInputs : set_detection_model(m)
    \/ \E c \in ConfidenceInputs : set_detection_confidence(c)

\* the capture thread without a detector selected
CaptureNoDetector ==
    \/ CapOpen \/ CapWarm \/ CapLoopTest \/ CapReadFail \/ CapReadOk
    \/ CapNight \/ CapBrightness \/ CapContrast \/ CapAdjust
    \/ CapEncode \/ CapLock \/ CapPublish \/ CapRelease

\* The server with its control surface: capture thread, setters, get_state, the
\* stop flag.
Next ==
    \/ Capture
    \/ Setters
    \/ \E h \in {"h1"} : get_state_lock(h) \/ get_state(h)
    \/ StopSignal

Spec == Init /\ [][Next]_vars

\* The two capture loops on their own: the server's capture thread with the stop
\* flag, or the command line tool.
NextLoops ==
    \/ CaptureNoDetector
    \/ StopSignal
    \/ main

SpecLoops == InitLoops /\ [][NextLoops]_vars

\* A thread that can run does run.
FairLoops == SpecLoops /\ WF_vars(CaptureNoDetector) /\ WF_vars(main)

\* The server with its consumers: capture thread, stream generators, snapshot
\* requests, the stop flag. The control values stay as they start.
NextStream ==
    \/ CaptureNoDetector
    \/ \E s \in Streams : video_feed(s) \/ generate_frames(s) \/ GenResume(s) \/ GenClose(s)
    \/ \E h \in Handlers : capture_image(h)
    \/ StopSignal

SpecStream == Init /\ [][NextStream]_vars

\* Threads that can run do run (the capture thread, every generator), and a
\* connected consumer takes its chunk or disconnects.
FairStream ==
    /\ SpecStream
    /\ WF_vars(CaptureNoDetector)
    /\ \A s \in Streams : SF_vars(generate_frames(s))
    /\ \A s \in Streams : WF_vars(GenResume(s) \/ GenClose(s))
    /\ \A h \in Handlers : SF_vars(capture_image(h))

\* The control surface on its own: every setter with request values below, on,
\* inside and above the declared ranges, values of other types for the night mode
\* flag, and get_state; the detectors imported and loaded or not.
BrightnessValues == {BrightnessMin - 1, BrightnessMin, 7, BrightnessMax, BrightnessMax + 1}
ContrastValues == {ContrastMin - 1, ContrastMin, 12, ContrastMax, ContrastMax + 1}
EnabledValues == {PyTrue, PyFalse, None, "'yes'"}
ConfidenceValues == {ConfidenceMin - 1, ConfidenceMin, 7, ConfidenceMax, ConfidenceMax + 1}

InitControl == \E a \in Availabilities : InitWith("server", a, CliNotRun)

NextControl ==
    \/ \E v \in BrightnessValues : set_brightness(v)
    \/ \E v \in ContrastValues : set_contrast(v)
    \/ \E e \in EnabledValues : toggle_night_mode(e)
    \/ \E m \in ModelInputs : set_detection_model(m)
    \/ \E c \in ConfidenceValues : set_detection_confidence(c)
    \/ \E h \in {"h1"} : get_state_lock(h) \/ get_state(h)

SpecControl == InitControl /\ [][NextControl]_vars

\* webcam.py with its -b and -c arguments on and inside the documented ranges.
BrightnessArgs == {BrightnessMin, 0, BrightnessMax}
ContrastArgs == {ContrastMin, 10, ContrastMax}

InitAdjust ==
    \E c \in CliStart, b \in BrightnessArgs, k \in ContrastArgs :
        InitWith("cli", NotImported, [c EXCEPT !.brightness = b, !.contrast = k])

SpecAdjust == InitAdjust /\ [][main]_vars

\* Night mode in both programs: the server's capture thread with the three
\* setters that matter to the adjustment, or webcam.py with its arguments.
InitNight == Init \/ InitAdjust

NextNight ==
    \/ CaptureNoDetector
    \/ \E v \in BrightnessInputs : set_brightness(v)
    \/ \E v \in ContrastInputs : set_contrast(v)
    \/ \E e \in EnabledInputs : toggle_night_mode(e)
    \/ StopSignal
    \/ main

SpecNight == InitNight /\ [][NextNight]_vars

\* Either program from its start: the server with its consumers, or webcam.py.
SpecWarm == InitLoops /\ [][NextStream \/ main]_vars

\* Every user of the lock together: the capture thread with a detector that can
\* be selected, one get_state handler, one stream generator, one snapshot handler.
NextLock ==
    \/ Capture
    \/ \E m \in ModelInputs : set_detection_model(m)
    \/ \E h \in {"h1"} : get_state_lock(h) \/ get_state(h)
    \/ \E s \in {"s1"} : video_feed(s) \/ generate_frames(s) \/ GenResume(s) \/ GenClose(s)
    \/ \E h \in {"h2"} : capture_image(h)
    \/ StopSignal

SpecLock == Init /\ [][NextLock]_vars

\* ------------------------------------------------------------------ claims
\* threads that only read the slot
Readers == Handlers \cup Streams

\* C1: no reader holding the lock sees the frame of iteration K together with the
\* detections of iteration K-1 or K+1.
C1_SlotAtomic ==
    lock \in Readers =>
        ~(/\ frameIter >= 1 /\ detIter >= 1
          /\ detIter \in {frameIter - 1, frameIter + 1})

\* the control values one iteration used agree with the ControlState h
UsedFrom(h) ==
    /\ "night_mode" \in loc.read => Truthy(h.night_mode) = loc.night
    /\ "brightness" \in loc.read => h.brightness = loc.brightness
    /\ "contrast" \in loc.read => h.contrast = loc.contrast
    /\ "detection_model" \in loc.read => h.detection_model = loc.model0
    /\ "detection_model2" \in loc.read => h.detection_model = loc.model
    /\ "detection_confidence" \in loc.read => h.detection_confidence = loc.conf

\* C2: the control values used to process one frame all come from one ControlState
\* value that existed at one instant of the iteration.
C2_ConsistentSnapshot ==
    cpc \in {"encode", "lock", "publish"} => \E h \in ctlHist : UsedFrom(h)

\* positions at which the capture thread's next step reads a ControlState key
CapControlReads == {"night", "brightness", "contrast", "adjust", "det_model", "det_conf"}

\* C3: every read and every write of a PublishSlot or ControlState field is made by
\* a thread that holds camera_state['lock'] (the capture thread's reads and writes,
\* the handlers' writes of the control values, the readers' reads).
C3_LockDiscipline ==
    [][ /\ (detections' # detections => lock = "capture")
        /\ (<<frame, fps, frame_count>>' # <<frame, fps, frame_count>> => lock = "capture")
        /\ (cpc \in CapControlReads /\ cpc' # cpc => lock = "capture")
        /\ (ctlVars' # ctlVars => lock \in Handlers)
        /\ \A h \in Handlers : hpc[h] = "state" /\ hpc'[h] = "idle" => lock = h
        /\ \A h \in Handlers : hloc'[h].frame # hloc[h].frame /\ hloc'[h].frame.some => lock = h
        /\ \A g \in Streams : sframe'[g] # sframe[g] /\ sframe'[g].some => lock = g
      ]_vars

\* the models set_detection_model means to accept: none, and the imported detectors
Available(m) ==
    \/ m = "none"
    \/ m = "yolo" /\ avail.yolo_available
    \/ m = "rfdetr" /\ avail.rfdetr_available

\* C10: a model that is not available is never stored by set_detection_model, so the
\* capture loop never runs an iteration with an unavailable model selected.
C10_OnlyAvailableModels ==
    /\ Available(detection_model)
    /\ "detection_model" \in loc.read => Available(loc.model0)
    /\ "detection_model2" \in loc.read => Available(loc.model)

\* C4: once the consecutive failed reads exceed the budget the loop stops retrying,
\* and a loop that has ended has released the device exactly once.
C4_FailureBudget ==
    /\ prog = "server" =>
          /\ consecFails > FailureBudget => cpc # "read"
          /\ cpc = "exited" => releases = 1
    /\ prog = "cli" =>
          /\ cli.failed_count >= FailureBudget => cli.pc # "read"
          /\ cli.pc = "done" => cli.releases = 1

\* positions of the capture thread inside one iteration, after its read
InIteration == {"night", "brightness", "contrast", "adjust", "det_model", "det_conf",
                "det_run", "encode", "lock", "publish"}

\* C5: a failed read below the budget publishes nothing and does not end the loop;
\* the next successful read resets the failure count and its frame is published
\* (server: the iteration it starts ends only by publishing; command line tool: the
\* frame is saved).
C5_TransientFailures ==
    [][ /\ (cpc = "read" /\ cpc' = "top") =>
              /\ UNCHANGED <<slotVars, frameIter, detIter, releases, opened>>
              /\ consecFails' = Min(consecFails + 1, FailureBudget + 1)
        /\ (cpc = "read" /\ cpc' # cpc) => cpc' \in {"top", "night"}
        /\ (cpc = "read" /\ cpc' = "night") => consecFails' = 0 /\ iter' = iter + 1
        /\ (cpc \in InIteration /\ cpc' = "top") =>
              frame' = Bytes(loc.frame) /\ frameIter' = iter
        /\ (cpc \in InIteration /\ cpc' # cpc) => cpc' \in InIteration \cup {"top"}
        /\ (cli.pc = "read" /\ cli'.pc = "top" /\ cli'.frame_count = cli.frame_count) =>
              /\ cli'.failed_count = cli.failed_count + 1
              /\ cli'.saved = cli.saved
        /\ (cli.pc = "top" /\ cli'.pc # cli.pc /\ cli.failed_count < FailureBudget
              /\ cli.frame_count < cli.num_frames) => cli'.pc = "read"
        /\ (cli.pc = "read" /\ cli'.frame_count # cli.frame_count) =>
              /\ cli'.failed_count = 0
              /\ cli'.frame_count = cli.frame_count + 1
              /\ Len(cli'.saved) = Len(cli.saved) + 1
      ]_vars

\* two failed reads in a row after a first published frame, the loop about to read again
C5_Witness ==
    /\ prog = "server" /\ consecFails = FailureBudget - 1 /\ cpc = "read"
    /\ frameIter = 1 /\ iter = 1 /\ frame.some

\* C6: with running False the loop test leaves the loop, at most one frame is
\* published after the flag was cleared, the device is released exactly once, nothing
\* is published after the exit, and the loop does exit.
C6_Stopping ==
    /\ [][ /\ (cpc = "top" /\ ~running /\ cpc' # cpc) => cpc' = "release"
           /\ (cpc = "release" /\ cpc' # cpc) => cpc' = "exited" /\ releases' = releases + 1
           /\ cpc = "exited" => UNCHANGED <<slotVars, cpc, releases, frameIter>>
           /\ pubAfterStop' <= 1
           /\ releases' <= 1
           /\ cpc' = "exited" => releases' = 1 /\ ~opened'
         ]_vars
    /\ (prog = "server" /\ ~running /\ opened) ~> (cpc = "exited")

\* stopped during an iteration: one frame published after the flag, then the exit
C6_Witness ==
    ~running /\ cpc = "exited" /\ releases = 1 /\ pubAfterStop = 1 /\ ~opened

\* C7: once the capture loop has stopped, every stream generator that was started
\* eventually ends.
C7_StreamsEnd ==
    \A s \in Streams :
        (cpc \in {"returned", "exited"} /\ spc[s] # "idle") ~> (spc[s] = "ended")

\* reading a chunk back: the index of the last byte of the first CRLFCRLF
RECURSIVE HeadEnd(_, _)
HeadEnd(c, i) ==
    IF i + 3 > Len(c) THEN 0
    ELSE IF SubSeq(c, i, i + 3) = CRLFCRLF THEN i + 3
    ELSE HeadEnd(c, i + 1)

\* int(...) of ASCII decimal digits
RECURSIVE ParseInt(_)
ParseInt(d) ==
    IF d = <<>> THEN 0 ELSE 10 * ParseInt(SubSeq(d, 1, Len(d) - 1)) + (d[Len(d)] - 48)

\* the number after b'Content-Length: ' and the bytes between the blank line and
\* the closing CRLF
ChunkLength(c) == ParseInt(SubSeq(c, Len(ChunkHead) + 1, HeadEnd(c, 1) - 4))
ChunkPayload(c) == SubSeq(c, HeadEnd(c, 1) + 1, Len(c) - 2)

\* C8: a generator that read an empty slot yields nothing and polls again; no chunk
\* exists while the slot is empty; every chunk yielded wraps the frame the generator
\* read from the slot under the lock, with Content-Length its byte length.
C8_StreamChunks ==
    [][ \A s \in Streams :
          /\ (spc[s] = "test" /\ ~sframe[s].some /\ spc'[s] # spc[s]) =>
                spc'[s] = "loop" /\ chunk'[s] = <<>>
          /\ ~frame'.some => chunk'[s] = <<>>
          /\ (sframe'[s] # sframe[s] /\ sframe'[s].some) =>
                sframe'[s] = frame /\ lock = s /\ frameIter >= 1
          /\ (chunk'[s] # chunk[s] /\ chunk'[s] # <<>>) =>
                /\ sframe[s].some
                /\ SubSeq(chunk'[s], 1, Len(ChunkHead)) = ChunkHead
                /\ ChunkPayload(chunk'[s]) = sframe[s].bytes
                /\ ChunkLength(chunk'[s]) = Len(sframe[s].bytes)
                /\ SubSeq(chunk'[s], Len(chunk'[s]) - 1, Len(chunk'[s])) = CRLF
      ]_vars

\* a generator suspended at its yield with a chunk of a published frame
C8_Witness ==
    \E s \in Streams :
        /\ spc[s] = "yielded" /\ chunk[s] # <<>>
        /\ ChunkLength(chunk[s]) >= 10
        /\ ChunkPayload(chunk[s]) = frame.bytes

\* C9: a snapshot request that finds no frame answers 500, writes no file and
\* changes neither the slot, the control values nor the capture thread; while no
\* frame has been published no snapshot has succeeded and no file exists.
C9_SnapshotWithoutFrame ==
    [][ /\ \A h \in Handlers :
             (hpc[h] = "snap_test" /\ hpc'[h] # hpc[h] /\ ~FrameTruthy(hloc[h].frame)) =>
                /\ resp'.req = "capture" /\ resp'.status = 500
                /\ UNCHANGED <<fs, slotVars, ctlVars, capVars, running, lock>>
        /\ ~frame'.some =>
             /\ fs'.files = <<>>
             /\ ~(resp'.req = "capture" /\ resp'.status = 200)
      ]_vars

\* the device failed to open and a snapshot request was answered 500
C9_Witness ==
    /\ cpc = "returned" /\ ~frame.some
    /\ resp.req = "capture" /\ resp.status = 500
    /\ fs.files = <<>>

\* the clamp law as the specification words it
ClampLaw(lo, hi, v) == IF v < lo THEN lo ELSE IF v > hi THEN hi ELSE v

\* C11: set-brightness and set-contrast store the lower bound for an input below
\* the range, the upper bound for an input above it and the input itself inside
\* it, and answer with the stored value; a get-state that completes next, with no
\* other setter in between, returns that stored value.
C11_ClampLaw ==
    [][ /\ \A v \in BrightnessValues :
             set_brightness(v) =>
                /\ brightness' = ClampLaw(BrightnessMin, BrightnessMax, v)
                /\ resp'.body = brightness'
        /\ \A v \in ContrastValues :
             set_contrast(v) =>
                /\ contrast' = ClampLaw(ContrastMin, ContrastMax, v)
                /\ resp'.body = contrast'
        /\ \A h \in Handlers :
             get_state(h) =>
                /\ resp.req = "brightness" => resp'.body.brightness = resp.body
                /\ resp.req = "contrast" => resp'.body.contrast = resp.body
                /\ resp'.body.brightness = brightness
                /\ resp'.body.contrast = contrast
      ]_vars

\* a brightness above the range was set and the get-state after it returned the bound
C11_Witness ==
    /\ nreq = 2 /\ resp.req = "state"
    /\ resp.body.brightness = BrightnessMax
    /\ resp.body.contrast = 10
    /\ brightness = BrightnessMax

\* the transform as the specification words it: clamp(input * contrast +
\* brightness * 2, 0, 255), contrast in tenths
ClampAdjust(x, c, b) == Max(0, Min(255, RoundTenths(x * c + 20 * b)))

\* C12: every channel of every saved picture is clamp(input * contrast +
\* brightness * 2, 0, 255) of the channel it was computed from, up to one unit of
\* rounding.
C12_AdjusterTransform ==
    prog = "cli" =>
        \A i \in 1..Len(cli.saved) :
            \E raw \in RawFrames :
                LET src == IF cli.night THEN GrayBGR(raw) ELSE raw IN
                \A k \in 1..3 :
                    Abs(cli.saved[i][k] - ClampAdjust(src[k], cli.contrast, cli.brightness)) <= 1

\* what night mode makes of a raw frame: gray, then the transform with the constants
NightPicture(raw) == ConvertScaleAbs(GrayBGR(raw), NightContrast, NightBrightness)

\* C13: an iteration that took the night branch passes -5 and 1.3 to the transform
\* without reading the stored brightness and contrast, and what it publishes (the
\* server) or saves (webcam.py) depends on the raw frame only.
C13_NightOverride ==
    [][ /\ (cpc = "adjust" /\ cpc' # cpc /\ loc.night) =>
              /\ loc.brightness = NightBrightness /\ loc.contrast = NightContrast
              /\ loc.read = {"night_mode"}
              /\ \E raw \in RawFrames : loc'.frame = NightPicture(raw)
        /\ (cpc = "publish" /\ cpc' # cpc /\ loc.night) =>
              \E raw \in RawFrames : frame' = Bytes(ImEncode(NightPicture(raw), 0))
        /\ (cli'.night /\ cli'.saved # cli.saved) =>
              \E raw \in RawFrames : cli'.saved[Len(cli'.saved)] = NightPicture(raw)
      ]_vars

\* the transform is about to run in night mode while the stored brightness is 50
C13_Witness ==
    /\ cpc = "adjust" /\ loc.night
    /\ brightness = BrightnessMax
    /\ loc.brightness = NightBrightness /\ loc.contrast = NightContrast

\* the iteration in flight called a loaded detector
DetectorCalled ==
    /\ "detection_model2" \in loc.read
    /\ \/ loc.model = "yolo" /\ avail.yolo_model
       \/ loc.model = "rfdetr" /\ avail.rfdetr_model

\* C14: when the detector raised while processing the frame, the frame goes on to
\* be encoded and published and the detections in the slot for it are empty.
C14_DetectorFailure ==
    (cpc \in {"encode", "lock", "publish"} /\ DetectorCalled /\ ~loc.ran) =>
        detections = <<>>

\* C16: when the detector returned its results for the frame about to be
\* published, the detections in the slot are the ones it computed from that frame,
\* the empty sequence when it found nothing.
C16_DetectionsReplaced ==
    (cpc = "publish" /\ DetectorCalled /\ loc.ran) =>
        /\ Len(detections) = loc.boxes
        /\ detections # <<>> => detIter = iter

\* C15: a snapshot counts the existing files after it has left the lock and later
\* writes under the number it counted; when another snapshot was written in
\* between, the write replaces that file and both requests are answered with
\* success, so the directory can hold fewer files than snapshots written, never more.
C15_SnapshotNumbering ==
    /\ [](Len(fs.files) <= fs.written)
    /\ [][ \A h \in Handlers :
             /\ SnapGlob(h) => hloc'[h].next_num = Len(fs.files) /\ lock # h
             /\ SnapWrite(h) =>
                   LET n == hloc[h].next_num IN
                   /\ lock # h
                   /\ resp'.req = "capture" /\ resp'.status = 200 /\ resp'.body = n
                   /\ fs'.files[n + 1] = hloc[h].frame.bytes
                   /\ Len(fs'.files) = IF n < Len(fs.files) THEN Len(fs.files)
                                                            ELSE Len(fs.files) + 1
                   /\ fs'.written = fs.written + 1
          ]_vars

\* two snapshot requests have written and succeeded, one file exists
C15_Witness ==
    /\ fs.written = 2 /\ Len(fs.files) = 1
    /\ \A h \in Handlers : hpc[h] = "idle"
    /\ resp.req = "capture" /\ resp.status = 200 /\ resp.body = 0

\* C17: brightness is an integer in [-50, 50], contrast is in [0.5, 2.0],
\* detection_confidence is in [0.0, 1.0], night_mode is a boolean and
\* detection_model is one of none, yolo, rfdetr, in every reachable state.
C17_ControlStateInvariant ==
    /\ brightness \in BrightnessMin..BrightnessMax
    /\ contrast \in ContrastMin..ContrastMax
    /\ detection_confidence \in ConfidenceMin..ConfidenceMax
    /\ night_mode \in {PyTrue, PyFalse}
    /\ detection_model \in {"none", "yolo", "rfdetr"}

\* C18: before the device is open and its five warm-up reads are done, and for ever
\* when the open failed, the slot's frame is empty, no chunk and no snapshot file
\* exists, and nothing counts as a failed read; each warm-up read only counts down
\* and leaves the slot alone; webcam.py saves nothing and counts no failure before
\* its warm-up is over.
C18_WarmupOrdering ==
    /\ []( /\ cpc \in {"open", "warm", "returned"} =>
                /\ ~frame.some /\ frameIter = 0 /\ iter = 0 /\ consecFails = 0
                /\ \A s \in Streams : chunk[s] = <<>>
                /\ fs.files = <<>>
           /\ cpc = "warm" => opened /\ warm \in 1..WarmupReads
           /\ frame.some => warm = 0 /\ cpc \notin {"open", "warm", "returned"}
           /\ cli.pc \in {"open", "warm", "exit"} =>
                cli.saved = <<>> /\ cli.failed_count = 0 /\ cli.frame_count = 0
           /\ cli.pc = "warm" => cli.opened /\ cli.warm \in 1..WarmupReads )
    /\ [][ /\ (cpc = "open" /\ cpc' # cpc) =>
                 /\ cpc' \in {"warm", "returned"}
                 /\ cpc' = "warm" => opened' /\ warm' = WarmupReads
                 /\ cpc' = "returned" => ~opened'
           /\ (cpc = "warm" /\ <<cpc, warm>>' # <<cpc, warm>>) =>
                 /\ warm' = warm - 1
                 /\ cpc' = IF warm = 1 THEN "top" ELSE "warm"
                 /\ UNCHANGED <<slotVars, consecFails, iter, frameIter>>
           /\ cpc = "returned" => cpc' = "returned" /\ frame' = frame
           /\ (cli.pc = "open" /\ cli'.pc # cli.pc) =>
                 /\ cli'.pc \in {"warm", "exit"}
                 /\ cli'.pc = "warm" => cli'.warm = WarmupReads
           /\ (cli.pc = "warm" /\ cli' # cli) =>
                 /\ cli'.warm = cli.warm - 1
                 /\ cli'.pc = IF cli.warm = 1 THEN "top" ELSE "warm"
                 /\ cli'.saved = <<>> /\ cli'.failed_count = 0
         ]_vars

\* the warm-up is over and the first frame has been published
C18_Witness ==
    /\ prog = "server" /\ opened /\ warm = 0
    /\ frame.some /\ frameIter = 1 /\ iter = 1

\* C19: the capture thread holds the lock only at its publish, never at a device
\* read, the adjustment, the detection or the encode; a handler or a generator
\* holds it only at its copy out of camera_state; nobody waits for the lock while
\* holding it; whoever holds it can take its next step, and that step releases it.
C19_LockScope ==
    /\ []( /\ lock = "capture" <=> cpc = "publish"
           /\ \A h \in Handlers : lock = h <=> hpc[h] \in {"state", "snap_read"}
           /\ \A s \in Streams : lock = s <=> spc[s] = "read"
           /\ lock \in {"free", "capture"} \cup Handlers \cup Streams
           /\ lock = "capture" => ENABLED CapPublish
           /\ \A h \in Handlers : lock = h => ENABLED (get_state(h) \/ SnapRead(h))
           /\ \A s \in Streams : lock = s => ENABLED GenRead(s) )
    /\ [][ /\ (lock # "free" /\ lock' # lock) => lock' = "free"
           /\ (lock = "capture" /\ cpc' # cpc) => lock' = "free"
           /\ \A h \in Handlers : (lock = h /\ hpc'[h] # hpc[h]) => lock' = "free"
           /\ \A s \in Streams : (lock = s /\ spc'[s] # spc[s]) => lock' = "free"
         ]_vars

\* the capture thread is publishing while a generator and a snapshot wait for the lock
C19_Witness ==
    /\ lock = "capture" /\ cpc = "publish"
    /\ spc["s1"] = "lock" /\ hpc["h2"] = "snap_lock"

\* C20: the loop of webcam.py ends, with num_frames frames saved or with three
\* failed reads in a row; failed_count stays in 0..3 and a successful read resets
\* it; the saved files are frame 0 to frame_count - 1, each written once, at most
\* num_frames of them; the device is released exactly once, after the loop.
C20_CliLoop ==
    /\ []( prog = "cli" =>
             /\ cli.failed_count \in 0..FailureBudget
             /\ Len(cli.saved) = cli.frame_count
             /\ cli.frame_count <= cli.num_frames
             /\ cli.releases <= 1
             /\ cli.pc \in {"warm", "top", "read", "release"} =>
                   cli.opened /\ cli.releases = 0
             /\ cli.pc = "release" =>
                   cli.frame_count = cli.num_frames \/ cli.failed_count = FailureBudget
             /\ cli.pc = "done" =>
                   /\ cli.releases = 1 /\ ~cli.opened
                   /\ cli.frame_count = cli.num_frames \/ cli.failed_count = FailureBudget )
    /\ [][ /\ cli'.frame_count # cli.frame_count =>
                 /\ cli'.frame_count = cli.frame_count + 1
                 /\ cli'.failed_count = 0
                 /\ Len(cli'.saved) = Len(cli.saved) + 1
                 /\ SubSeq(cli'.saved, 1, Len(cli.saved)) = cli.saved
           /\ cli'.frame_count = cli.frame_count => cli'.saved = cli.saved
           /\ cli.pc = "done" => cli' = cli
         ]_vars
    /\ (prog = "cli" /\ cli.opened) ~> (cli.pc = "done")

\* one frame saved of the two asked for, then three failed reads: released and done
C20_Witness ==
    /\ prog = "cli" /\ cli.pc = "done" /\ cli.releases = 1
    /\ cli.num_frames = 2 /\ cli.frame_count = 1 /\ Len(cli.saved) = 1
    /\ cli.failed_count = FailureBudget

====
